---- MODULE Spec2Model ----
(***************************************************************************)
(* Model of github_action_script.py: one run of the Google News publisher  *)
(* URL extractor.  main reads the sheet, process_articles resolves every   *)
(* row with get_final_publisher_url (one headless browser per call),       *)
(* updates the sheet and collects the enriched records, and main posts     *)
(* them to the webhook.                                                    *)
(*                                                                         *)
(* Text values (URLs, cells) are sequences of tokens; Python's None is the *)
(* one-token text None and '' is the empty sequence.  The browser, the     *)
(* page, the sheet service and the webhook are the environment: what they  *)
(* answer is chosen when the code asks, and recorded.                      *)
(***************************************************************************)
EXTENDS Integers, Sequences, FiniteSets, TLC

\* ---------------------------------------------------------------- bounds
MaxRows == 2        \* rows in the sheet / records in the input
MaxSkips == 1       \* selectors per call that match or raise without giving a URL

\* ---------------------------------------------------------------- values
None == <<"None">>
EmptyStr == <<>>
Throw == <<"Throw">>
Blank == <<" ">>

\* Python truthiness of an optional string: None and '' are falsy.
Truthy(v) == v # None /\ v # EmptyStr

\* substring test of `needle in text`
Contains(text, needle) ==
  \E i \in 1..(Len(text) - Len(needle) + 1) :
     SubSeq(text, i, i + Len(needle) - 1) = needle

\* the literal "news.google.com" of the redirect test
ViewerHostText == <<"news.", "google.com">>

UrlA == <<"https://", "siteA.com", "/", "art1">>
UrlB == <<"https://", "siteB.com", "/", "art2">>

\* URLs the page can be at after navigation and settling
FinalUrls ==
  { <<"https://", "news.", "google.com", "/", "rss">>,
    <<"https://", "siteA.com", "/", "art1">>,
    <<"https://", "siteA.com", "/", "?ref=", "news.", "google.com">> }

\* what an href read can give: no attribute, '', a URL, or a raised error
HrefOutcomes == {None, EmptyStr, UrlA, UrlB, Throw}
CountOutcomes == {"zero", "some", "throw"}

\* HTTP statuses of a navigation response; NoResponse is goto returning None
NoResponse == 0
Statuses == {200, 400, 404}

selectors ==
  << "link[rel=alternate]", "a[jsname=hXwDdf]", "a[jscontroller]",
     "c-wiz a[rel=nofollow]", "a[target=_blank][rel=noopener]",
     "div[jsname=gKDw6b] a" >>

\* ---------------------------------------------------------------- sheet
\* A sheet row: its guid (column F), how many cells the API returned for it
\* (8 or 9) and the 9th cell (column I), None when the row has 8 cells.
Guids == <<"g1", "g2", "g3", "g4">>
Titles == <<"t1", "t2", "t3", "t4">>
LinkOf(i) == <<"https://", "news.", "google.com", "/", Guids[i]>>

RowKinds == {"eight", "blank", "done"}
SheetRow(i, kind) ==
  [ id |-> i, guid |-> Guids[i],
    ncells |-> IF kind = "eight" THEN 8 ELSE 9,
    pub |-> IF kind = "eight" THEN None ELSE IF kind = "blank" THEN Blank ELSE UrlA ]

Sheets ==
  UNION { { [i \in 1..n |-> SheetRow(i, k[i])] : k \in [1..n -> RowKinds] } : n \in 0..MaxRows }

\* str.strip() on a token text: leading and trailing blanks removed
RECURSIVE LStrip(_)
LStrip(s) == IF s # <<>> /\ Head(s) = " " THEN LStrip(Tail(s)) ELSE s
RECURSIVE RStrip(_)
RStrip(s) == IF s # <<>> /\ s[Len(s)] = " " THEN RStrip(SubSeq(s, 1, Len(s) - 1)) ELSE s
Strip(s) == RStrip(LStrip(s))
FillNa(v) == IF v = None THEN EmptyStr ELSE v

\* a DataFrame row built from a sheet row
FrameRow(r, hasPub) ==
  IF hasPub
    THEN [ title |-> Titles[r.id], link |-> LinkOf(r.id), guid |-> r.guid, publisher_url |-> r.pub ]
    ELSE [ title |-> Titles[r.id], link |-> LinkOf(r.id), guid |-> r.guid ]

NoneDf == [ kind |-> "none", hasPubCol |-> FALSE, rows |-> <<>> ]
ListDf == [ kind |-> "list", hasPubCol |-> FALSE, rows |-> <<>> ]
Frame(hasPub, rows) == [ kind |-> "frame", hasPubCol |-> hasPub, rows |-> rows ]

Unprocessed(r) == Strip(FillNa(r.pub)) = EmptyStr

\* the boolean-mask selection of line 73: the unprocessed rows, in order
RECURSIVE KeepUnprocessed(_)
KeepUnprocessed(values) ==
  IF values = <<>> THEN <<>>
  ELSE (IF Unprocessed(Head(values)) THEN << Head(values) >> ELSE <<>>)
         \o KeepUnprocessed(Tail(values))

\* get_sheet_data: `service` is how the service calls went
SheetData(values, service) ==
  IF service # "ok" THEN NoneDf
  ELSE IF values = <<>> THEN ListDf
  ELSE IF \E i \in 1..Len(values) : values[i].ncells > values[1].ncells
         THEN NoneDf      \* DataFrame(...) raises on a row wider than the columns
  ELSE LET hasPub == values[1].ncells > 8
           kept == IF hasPub THEN KeepUnprocessed(values) ELSE values
       IN  Frame(hasPub, [i \in 1..Len(kept) |-> FrameRow(kept[i], hasPub)])

\* ---------------------------------------------------------------- state
VARIABLES
  entry,        \* "main": the script runs main(); "process": process_articles(df) is called
  pc,           \* position of the (single) thread of control
  sheet,        \* the spreadsheet's rows
  df,           \* the frame process_articles iterates
  idx,          \* position of the loop of process_articles in df
  results,      \* results of process_articles
  pub_url,      \* process_articles: what the resolver returned for the current row
  raised,       \* process_articles: the resolver call raised
  response,     \* resolver: status of the navigation response
  sIdx,         \* resolver: position in selectors
  r_pub_url,    \* resolver: its local pub_url
  obs,          \* resolver: what the page answered for each selector
  current_url,  \* resolver: page.url as read by the redirect test
  matched,      \* resolver: the selector (or "redirect") the info log names
  callLog,      \* resolver: log records written by this call
  trace,        \* resolver: steps this call ran
  retval,       \* resolver: the value at its return statement
  exc,          \* resolver: an exception is leaving the call
  browser,      \* resolver: "none", "open" or "closed" for this call's browser
  launches,     \* browsers launched in the run
  closes,       \* browser.close() calls completed in the run
  resolved,     \* guid and URL of every resolver call that returned a non-empty URL
  visited,      \* guids of the rows the loop has taken, in order
  updates,      \* calls of update_sheet_with_publisher_url: guid, url, result
  posts,        \* webhook posts: payload and response
  calls,        \* guids of the rows get_final_publisher_url was called for, in order
  navs,         \* guids of the rows page.goto was called for, in order
  fetched       \* how the service calls of get_sheet_data went ("" before it ran)

vars ==
  << entry, pc, sheet, df, idx, results, pub_url, raised, response, sIdx,
     r_pub_url, obs, current_url, matched, callLog, trace, retval, exc, browser,
     launches, closes, resolved, visited, updates, posts, calls, navs, fetched >>

procVars == << entry, sheet, df, idx, results, pub_url, raised, updates, posts, visited >>
histVars == << calls, navs, fetched >>
callVars == << response, sIdx, r_pub_url, obs, current_url, matched, callLog, trace, retval, exc >>

NoObs == [ cnt |-> "unqueried", href |-> None ]
FreshObs == [ i \in 1..Len(selectors) |-> NoObs ]

\* the resolver's locals when a call starts
CallReset ==
  /\ response' = NoResponse
  /\ sIdx' = 1
  /\ r_pub_url' = None
  /\ obs' = FreshObs
  /\ current_url' = None
  /\ matched' = ""
  /\ callLog' = {}
  /\ trace' = {}
  /\ retval' = None
  /\ exc' = FALSE

\* direct inputs of process_articles: frames of 0..MaxRows rows over the sheet
DirectFrame(s) == Frame(FALSE, [i \in 1..Len(s) |-> FrameRow(s[i], FALSE)])

\* a frame without the title column: row['title'] of line 245 raises KeyError
NoTitleRow(r) == [ link |-> LinkOf(r.id), guid |-> r.guid ]
NoTitleFrame(s) == Frame(FALSE, [i \in 1..Len(s) |-> NoTitleRow(s[i])])

Init ==
  /\ entry \in {"main", "process"}
  /\ sheet \in Sheets
  /\ entry = "process" => \A i \in 1..Len(sheet) : sheet[i].ncells = 8
  /\ df \in IF entry = "process" THEN {DirectFrame(sheet), NoTitleFrame(sheet)} ELSE {NoneDf}
  /\ pc = IF entry = "process" THEN "row" ELSE "start"
  /\ idx = 1
  /\ results = <<>>
  /\ pub_url = None
  /\ raised = FALSE
  /\ response = NoResponse
  /\ sIdx = 1
  /\ r_pub_url = None
  /\ obs = FreshObs
  /\ current_url = None
  /\ matched = ""
  /\ callLog = {}
  /\ trace = {}
  /\ retval = None
  /\ exc = FALSE
  /\ browser = "none"
  /\ launches = 0
  /\ closes = 0
  /\ resolved = <<>>
  /\ visited = <<>>
  /\ updates = <<>>
  /\ posts = <<>>
  /\ calls = <<>>
  /\ navs = <<>>
  /\ fetched = ""

\* ---------------------------------------------------------------- main
\* main, lines 289-293: read the sheet; nothing to do on None or an empty
\* frame.  The empty list get_sheet_data returns for a sheet without values
\* has no attribute `empty`: line 291 raises and the script ends there.
\* mutant: the test for an empty frame is missing
NothingToDoNoneOnly(d) == d.kind = "none"

\* line 291
NothingToDo(d) == d.kind = "none" \/ d.rows = <<>>

GetSheetData ==
  /\ pc = "start"
  /\ \E service \in {"ok", "no_service", "http_error"} :
       LET d == SheetData(sheet, service) IN
         /\ df' = d
         /\ fetched' = service
         /\ pc' = IF d.kind = "list" THEN "crashed"
                  ELSE IF NothingToDo(d) THEN "done"
                  ELSE "row"
  /\ UNCHANGED << entry, sheet, idx, results, pub_url, raised, updates, posts, visited >>
  /\ UNCHANGED callVars
  /\ UNCHANGED << browser, launches, closes, resolved, calls, navs >>

\* mutant: the guards of lines 302 and 217 are missing
ShouldPostAlways(data) == TRUE

\* line 302 and line 217: an empty result list is not posted
ShouldPost(data) == data # <<>>

\* send_to_n8n_webhook: one requests.post, whatever it answers
SendToWebhook(data, answer) ==
  IF ShouldPost(data)
    THEN Append(posts, [ payload |-> data, answer |-> answer ])
    ELSE posts

\* main, lines 299-303
Publish ==
  /\ pc = "publish"
  /\ \E answer \in {"200", "500", "error"} :
       posts' = IF ShouldPost(results) THEN SendToWebhook(results, answer) ELSE posts
  /\ pc' = "done"
  /\ UNCHANGED << entry, sheet, df, idx, results, pub_url, raised, updates, visited >>
  /\ UNCHANGED callVars
  /\ UNCHANGED << browser, launches, closes, resolved >>
  /\ UNCHANGED histVars

\* ---------------------------------------------------------------- process_articles
\* lines 245-247: the three columns the loop reads are there
HasFields(row) == {"title", "link", "guid"} \subseteq DOMAIN row

\* lines 243-252: take the next row and call the resolver; a column that is
\* not there raises KeyError, which line 278 catches: the row is dropped
NextRow ==
  /\ pc = "row"
  /\ idx <= Len(df.rows)
  /\ visited' = Append(visited, df.rows[idx].guid)
  /\ IF HasFields(df.rows[idx])
       THEN /\ calls' = Append(calls, df.rows[idx].guid)
            /\ browser' = "none"
            /\ pc' = "launch"
            /\ UNCHANGED idx
       ELSE /\ idx' = idx + 1
            /\ pc' = "row"
            /\ UNCHANGED << calls, browser >>
  /\ UNCHANGED << entry, sheet, df, results, pub_url, raised, updates, posts >>
  /\ UNCHANGED callVars
  /\ UNCHANGED << launches, closes, resolved, navs, fetched >>

\* line 281: the loop is over
ReturnResults ==
  /\ pc = "row"
  /\ idx > Len(df.rows)
  /\ pc' = IF entry = "main" THEN "publish" ELSE "returned"
  /\ UNCHANGED << entry, sheet, df, idx, results, pub_url, raised, updates, posts, visited >>
  /\ UNCHANGED callVars
  /\ UNCHANGED << browser, launches, closes, resolved >>
  /\ UNCHANGED histVars

\* mutant: only None counts as a failed resolution, '' does not
FailedOnlyNone(u) == u = None

\* line 254
Failed(u) == ~Truthy(u)

\* mutant: the try of line 244 is around the loop, not inside it
AfterResolveAbortsOnRaise ==
  /\ pc = "after_resolve"
  /\ IF raised
       THEN /\ idx' = Len(df.rows) + 1
            /\ pub_url' = None
            /\ raised' = FALSE
            /\ pc' = "row"
       ELSE IF Failed(pub_url)
       THEN /\ idx' = idx + 1
            /\ pub_url' = None
            /\ raised' = FALSE
            /\ pc' = "row"
       ELSE /\ pc' = "update"
            /\ UNCHANGED << idx, pub_url, raised >>
  /\ UNCHANGED << entry, sheet, df, results, updates, posts, visited >>
  /\ UNCHANGED callVars
  /\ UNCHANGED << browser, launches, closes, resolved >>
  /\ UNCHANGED histVars

\* mutant: a row that did not resolve is tried again
AfterResolveRetries ==
  /\ pc = "after_resolve"
  /\ IF raised \/ Failed(pub_url)
       THEN /\ pub_url' = None
            /\ raised' = FALSE
            /\ pc' = "row"
            /\ UNCHANGED idx
       ELSE /\ pc' = "update"
            /\ UNCHANGED << idx, pub_url, raised >>
  /\ UNCHANGED << entry, sheet, df, results, updates, posts, visited >>
  /\ UNCHANGED callVars
  /\ UNCHANGED << browser, launches, closes, resolved >>
  /\ UNCHANGED histVars

\* mutant: the `continue` of line 256 is missing
AfterResolveAlwaysUpdates ==
  /\ pc = "after_resolve"
  /\ IF raised
       THEN /\ idx' = idx + 1
            /\ pub_url' = None
            /\ raised' = FALSE
            /\ pc' = "row"
       ELSE /\ pc' = "update"
            /\ UNCHANGED << idx, pub_url, raised >>
  /\ UNCHANGED << entry, sheet, df, results, updates, posts, visited >>
  /\ UNCHANGED callVars
  /\ UNCHANGED << browser, launches, closes, resolved >>
  /\ UNCHANGED histVars

\* lines 252-256 and 278-279: an exception of the call is caught and the row
\* dropped; a falsy result drops the row; otherwise the sheet is updated
AfterResolve ==
  /\ pc = "after_resolve"
  /\ IF raised \/ Failed(pub_url)
       THEN /\ idx' = idx + 1
            /\ pub_url' = None
            /\ raised' = FALSE
            /\ pc' = "row"
       ELSE /\ pc' = "update"
            /\ UNCHANGED << idx, pub_url, raised >>
  /\ UNCHANGED << entry, sheet, df, results, updates, posts, visited >>
  /\ UNCHANGED callVars
  /\ UNCHANGED << browser, launches, closes, resolved >>
  /\ UNCHANGED histVars

\* lines 107-113: the 1-based position of the first row whose column F is guid
RowIndexOf(values, guid) ==
  IF \E i \in 1..Len(values) : values[i].guid = guid
    THEN CHOOSE i \in 1..Len(values) :
           /\ values[i].guid = guid
           /\ \A j \in 1..(i - 1) : values[j].guid # guid
    ELSE 0

\* update_sheet_with_publisher_url: TRUE when the cell was written
UpdateOk(values, guid, service) ==
  /\ service = "ok"
  /\ values # <<>>
  /\ RowIndexOf(values, guid) > 0

\* what values().get of line 99 can answer: the rows, the rows without the
\* one looked for (removed by another writer), or no rows at all
RECURSIVE WithoutGuid(_, _)
WithoutGuid(values, guid) ==
  IF values = <<>> THEN <<>>
  ELSE (IF Head(values).guid # guid THEN << Head(values) >> ELSE <<>>)
         \o WithoutGuid(Tail(values), guid)
SeenSheets(values, guid) == { values, WithoutGuid(values, guid), <<>> }

\* line 259 (lines 90-137)
UpdateSheet ==
  /\ pc = "update"
  /\ \E service \in {"ok", "no_service", "http_error_get", "http_error_update"},
        seen \in SeenSheets(sheet, df.rows[idx].guid) :
       LET guid == df.rows[idx].guid
           ok == UpdateOk(seen, guid, service)
           pos == RowIndexOf(seen, guid)
       IN  /\ service # "ok" => seen = sheet
           /\ sheet' = IF ok
                         THEN [sheet EXCEPT ![pos] = [@ EXCEPT !.pub = pub_url, !.ncells = 9]]
                         ELSE sheet
           /\ updates' = Append(updates, [ guid |-> guid, url |-> pub_url, ok |-> ok ])
  /\ pc' = "append"
  /\ UNCHANGED << entry, df, idx, results, pub_url, raised, posts, visited >>
  /\ UNCHANGED callVars
  /\ UNCHANGED << browser, launches, closes, resolved >>
  /\ UNCHANGED histVars

\* mutant: the pass-through loop copies every source column, also those
\* that are keys of the record already
ArticleDataRowWins(row, url) ==
  LET base == [ title |-> row.title, original_link |-> row.link,
                publisher_url |-> url, guid |-> row.guid ]
  IN  [ k \in (DOMAIN base) \cup (DOMAIN row) |->
          IF k \in DOMAIN row THEN row[k] ELSE base[k] ]

\* lines 262-272: the enriched record, and every column of the row that is
\* not already one of its keys
ArticleData(row, url) ==
  LET base == [ title |-> row.title, original_link |-> row.link,
                publisher_url |-> url, guid |-> row.guid ]
  IN  [ k \in (DOMAIN base) \cup (DOMAIN row) |->
          IF k \in DOMAIN base THEN base[k] ELSE row[k] ]

\* mutant: the record is put in front of the results
AppendResultFront ==
  /\ pc = "append"
  /\ results' = << ArticleData(df.rows[idx], pub_url) >> \o results
  /\ idx' = idx + 1
  /\ pub_url' = None
  /\ pc' = "row"
  /\ UNCHANGED << entry, sheet, df, raised, updates, posts, visited >>
  /\ UNCHANGED callVars
  /\ UNCHANGED << browser, launches, closes, resolved >>
  /\ UNCHANGED histVars

\* mutant: the record is kept only when the sheet update succeeded
AppendOnlyUpdated ==
  /\ pc = "append"
  /\ results' = IF updates[Len(updates)].ok
                  THEN Append(results, ArticleData(df.rows[idx], pub_url))
                  ELSE results
  /\ idx' = idx + 1
  /\ pub_url' = None
  /\ pc' = "row"
  /\ UNCHANGED << entry, sheet, df, raised, updates, posts, visited >>
  /\ UNCHANGED callVars
  /\ UNCHANGED << browser, launches, closes, resolved >>
  /\ UNCHANGED histVars

\* lines 262-276
AppendResult ==
  /\ pc = "append"
  /\ results' = Append(results, ArticleData(df.rows[idx], pub_url))
  /\ idx' = idx + 1
  /\ pub_url' = None
  /\ pc' = "row"
  /\ UNCHANGED << entry, sheet, df, raised, updates, posts, visited >>
  /\ UNCHANGED callVars
  /\ UNCHANGED << browser, launches, closes, resolved >>
  /\ UNCHANGED histVars

\* ---------------------------------------------------------------- get_final_publisher_url
keepProc == << entry, sheet, df, idx, results, pub_url, raised, updates, posts, visited >>

\* A step of the browser set-up, lines 143-160, which are not inside the try
\* of line 162: when the step raises, the exception leaves the call and the
\* finally of line 210 does not run.
SetupStep(at, next, launching) ==
  /\ pc = at
  /\ \E ok \in BOOLEAN :
       IF ok
         THEN /\ pc' = next
              /\ browser' = IF launching THEN "open" ELSE browser
              /\ launches' = IF launching THEN launches + 1 ELSE launches
              /\ exc' = exc
         ELSE /\ pc' = "pw_exit"
              /\ exc' = TRUE
              /\ UNCHANGED << browser, launches >>
  /\ UNCHANGED keepProc
  /\ UNCHANGED << response, sIdx, r_pub_url, obs, current_url, matched, callLog, trace, retval >>
  /\ UNCHANGED << closes, resolved >>
  /\ UNCHANGED histVars

\* mutant: creating the context launches a second browser
NewContextLaunches == SetupStep("new_context", "add_cookies", TRUE)

Launch == SetupStep("launch", "new_context", TRUE)          \* lines 143-147
NewContext == SetupStep("new_context", "add_cookies", FALSE)  \* lines 149-152
AddCookies == SetupStep("add_cookies", "new_page", FALSE)     \* lines 155-158
NewPage == SetupStep("new_page", "goto", FALSE)               \* line 160

\* mutant: a status of exactly 400 is let through
NavFailedAbove400(r) == r = NoResponse \/ r > 400

\* lines 166 and 170
NavFailed(r) == r = NoResponse \/ r >= 400

\* mutant: a failed navigation is logged like an exhausted resolution
GotoWarnsOnNavError ==
  /\ pc = "goto"
  /\ \E raises \in BOOLEAN, r \in {NoResponse} \cup Statuses :
       /\ raises => r = NoResponse
       /\ response' = r
       /\ IF raises
            THEN /\ callLog' = callLog \cup {"error:extracting"}
                 /\ retval' = None
                 /\ pc' = "close"
            ELSE IF NavFailed(r)
            THEN /\ callLog' = callLog \cup {"warning:not found"}
                 /\ retval' = None
                 /\ pc' = "close"
            ELSE /\ pc' = "settle"
                 /\ UNCHANGED << callLog, retval >>
  /\ UNCHANGED keepProc
  /\ UNCHANGED << sIdx, r_pub_url, obs, current_url, matched, trace, exc >>
  /\ UNCHANGED << browser, launches, closes, resolved >>
  /\ navs' = Append(navs, df.rows[idx].guid)
  /\ UNCHANGED << calls, fetched >>

\* lines 163-172, and 207-209 when goto raises (a timeout)
Goto ==
  /\ pc = "goto"
  /\ \E raises \in BOOLEAN, r \in {NoResponse} \cup Statuses :
       /\ raises => r = NoResponse
       /\ response' = r
       /\ IF raises
            THEN /\ callLog' = callLog \cup {"error:extracting"}
                 /\ retval' = None
                 /\ pc' = "close"
            ELSE IF NavFailed(r)
            THEN /\ callLog' = callLog \cup {"error:navigation"}
                 /\ retval' = None
                 /\ pc' = "close"
            ELSE /\ pc' = "settle"
                 /\ UNCHANGED << callLog, retval >>
  /\ UNCHANGED keepProc
  /\ UNCHANGED << sIdx, r_pub_url, obs, current_url, matched, trace, exc >>
  /\ UNCHANGED << browser, launches, closes, resolved >>
  /\ navs' = Append(navs, df.rows[idx].guid)
  /\ UNCHANGED << calls, fetched >>

\* line 174
Settle ==
  /\ pc = "settle"
  /\ trace' = trace \cup {"settle"}
  /\ pc' = "selector"
  /\ UNCHANGED keepProc
  /\ UNCHANGED << response, sIdx, r_pub_url, obs, current_url, matched, callLog, retval, exc >>
  /\ UNCHANGED << browser, launches, closes, resolved >>
  /\ UNCHANGED histVars

\* selectors of this call that matched or raised and gave no URL
GivesUrl(h) == h \in {UrlA, UrlB}
Skips(o) == { i \in DOMAIN o : o[i].cnt \in {"some", "throw"} /\ ~GivesUrl(o[i].href) }

\* line 188
HasMatch(c) == c = "some"

\* what the call learns from the reads of one selector: a read that raised,
\* the count of line 188 or the get_attribute of line 189, lands in the
\* except of line 193 all the same, and is recorded as "throw"
Seen(c, h) ==
  IF c = "throw" \/ (HasMatch(c) /\ h = Throw)
    THEN [ cnt |-> "throw", href |-> None ]
    ELSE [ cnt |-> c, href |-> h ]

\* mutant: the chain ends at the first matching selector, whatever its href
ChainStopsOnAnyRead(h) == TRUE

\* mutant: the break of line 192 is missing
ChainNeverStops(h) == FALSE

\* line 190: a non-empty href ends the chain
ChainStops(h) == Truthy(h)

\* mutant: the try of line 187 is missing, so an exception of a selector
\* read reaches the except of line 207 and ends the call
SelectorStepThrowFatal ==
  /\ pc = "selector"
  /\ sIdx <= Len(selectors)
  /\ \E c \in CountOutcomes, h \in HrefOutcomes :
       LET read == HasMatch(c) /\ h # Throw
           stop == read /\ ChainStops(h)
           threw == c = "throw" \/ (HasMatch(c) /\ h = Throw)
       IN  /\ c # "some" => h = None
           /\ (c # "zero" /\ ~GivesUrl(h)) => Cardinality(Skips(obs)) < MaxSkips
           /\ obs' = [obs EXCEPT ![sIdx] = Seen(c, h)]
           /\ r_pub_url' = IF read THEN h ELSE r_pub_url
           /\ matched' = IF stop THEN selectors[sIdx] ELSE matched
           /\ callLog' = IF stop THEN callLog \cup {"info:selector"}
                         ELSE IF threw THEN callLog \cup {"error:extracting"}
                         ELSE callLog
           /\ sIdx' = IF stop \/ threw THEN sIdx ELSE sIdx + 1
           /\ pc' = IF threw THEN "close"
                    ELSE IF stop \/ sIdx = Len(selectors) THEN "redirect" ELSE "selector"
  /\ trace' = trace \cup {"selector"}
  /\ UNCHANGED keepProc
  /\ UNCHANGED << response, current_url, retval, exc >>
  /\ UNCHANGED << browser, launches, closes, resolved >>
  /\ UNCHANGED histVars

\* lines 186-194, one iteration: count the matches, read the href of the
\* first one, stop on a non-empty value; an exception of either read is
\* logged at debug level and the next selector is tried
SelectorStep ==
  /\ pc = "selector"
  /\ sIdx <= Len(selectors)
  /\ \E c \in CountOutcomes, h \in HrefOutcomes :
       LET read == HasMatch(c) /\ h # Throw
           stop == read /\ ChainStops(h)
       IN  /\ c # "some" => h = None
           /\ (c # "zero" /\ ~GivesUrl(h)) => Cardinality(Skips(obs)) < MaxSkips
           /\ obs' = [obs EXCEPT ![sIdx] = Seen(c, h)]
           /\ r_pub_url' = IF read THEN h ELSE r_pub_url
           /\ matched' = IF stop THEN selectors[sIdx] ELSE matched
           /\ callLog' = IF stop THEN callLog \cup {"info:selector"}
                         ELSE IF c = "throw" \/ (HasMatch(c) /\ h = Throw)
                           THEN callLog \cup {"debug:selector failed"}
                         ELSE callLog
           /\ sIdx' = IF stop THEN sIdx ELSE sIdx + 1
           /\ pc' = IF stop \/ sIdx = Len(selectors) THEN "redirect" ELSE "selector"
  /\ trace' = trace \cup {"selector"}
  /\ UNCHANGED keepProc
  /\ UNCHANGED << response, current_url, retval, exc >>
  /\ UNCHANGED << browser, launches, closes, resolved >>
  /\ UNCHANGED histVars

\* line 198
IsRedirect(url) == ~Contains(url, ViewerHostText)

\* lines 196-205: without a URL from the selectors, take the page's URL when
\* it passes the redirect test; warn when there is still none; return
RedirectFallback ==
  /\ pc = "redirect"
  /\ \E u \in FinalUrls :
       LET consult == ~Truthy(r_pub_url)
           taken == consult /\ IsRedirect(u)
           out == IF taken THEN u ELSE r_pub_url
       IN  /\ current_url' = IF consult THEN u ELSE current_url
           /\ trace' = IF consult THEN trace \cup {"redirect"} ELSE trace
           /\ r_pub_url' = out
           /\ matched' = IF taken THEN "redirect" ELSE matched
           /\ callLog' = (IF taken THEN callLog \cup {"info:redirect"} ELSE callLog)
                           \cup (IF ~Truthy(out) THEN {"warning:not found"} ELSE {})
           /\ retval' = out
  /\ pc' = "close"
  /\ UNCHANGED keepProc
  /\ UNCHANGED << response, sIdx, obs, exc >>
  /\ UNCHANGED << browser, launches, closes, resolved >>
  /\ UNCHANGED histVars

\* lines 210-211.  browser.close() is taken to complete: Playwright's close
\* tolerates a browser that is already gone.
Close ==
  /\ pc = "close"
  /\ browser' = "closed"
  /\ closes' = closes + 1
  /\ pc' = "pw_exit"
  /\ UNCHANGED keepProc
  /\ UNCHANGED callVars
  /\ UNCHANGED << launches, resolved >>
  /\ UNCHANGED histVars

\* the end of the `async with` of line 142 and the caller's line 252: the
\* call hands its value, or its exception, to process_articles
PwExit ==
  /\ pc = "pw_exit"
  /\ pub_url' = IF exc THEN None ELSE retval
  /\ raised' = exc
  /\ resolved' = IF ~exc /\ Truthy(retval)
                   THEN Append(resolved, [ guid |-> df.rows[idx].guid, url |-> retval ])
                   ELSE resolved
  /\ CallReset
  /\ pc' = "after_resolve"
  /\ UNCHANGED << entry, sheet, df, idx, results, updates, posts, visited >>
  /\ UNCHANGED << browser, launches, closes >>
  /\ UNCHANGED histVars

\* ---------------------------------------------------------------- specification
Next ==
  \/ GetSheetData
  \/ NextRow
  \/ Launch
  \/ NewContext
  \/ AddCookies
  \/ NewPage
  \/ Goto
  \/ Settle
  \/ SelectorStep
  \/ RedirectFallback
  \/ Close
  \/ PwExit
  \/ AfterResolve
  \/ UpdateSheet
  \/ AppendResult
  \/ ReturnResults
  \/ Publish

Spec == Init /\ [][Next]_vars

\* ---------------------------------------------------------------- claims
\* a resolver call is over: its value (retval) or exception (exc) is decided
CallOver == pc \in {"close", "pw_exit"}
\* the call is at its return, the finally block done
AtReturn == pc = "pw_exit"

\* the call got past navigation: goto answered with a status below 400
Navigated == AtReturn /\ ~exc /\ "settle" \in trace

\* selector k is the first one the page has an element for, and that
\* element's href is a URL
Offered(k) ==
  /\ obs[k].cnt = "some"
  /\ obs[k].href \in {UrlA, UrlB}
  /\ \A j \in 1..(k - 1) : obs[j].cnt = "zero"

\* C1: after a successful navigation, when selector k has a match with a
\* non-empty href and no selector before k has any match, the call returns
\* exactly that href and logs selector k; neither a later selector nor the
\* redirect fallback supplies the result.
C1_SelectorPriority ==
  \A k \in 1..Len(selectors) :
    (Navigated /\ response < 400 /\ Offered(k)) =>
      /\ retval = obs[k].href
      /\ matched = selectors[k]
      /\ "info:selector" \in callLog
      /\ "info:redirect" \notin callLog
      /\ "redirect" \notin trace
      /\ \A j \in (k + 1)..Len(selectors) : obs[j].cnt = "unqueried"

C1_Witness ==
  /\ pc = "pw_exit"
  /\ Offered(3)
  /\ retval = UrlB
  /\ matched = selectors[3]

\* host of a URL text: the tokens between the scheme and the first "/"
FirstSlash(u) == CHOOSE i \in 1..Len(u) : u[i] = "/" /\ \A j \in 1..(i - 1) : u[j] # "/"
Host(u) == SubSeq(u, 2, FirstSlash(u) - 1)
ViewerHost == <<"news.", "google.com">>

NoSelectorUrl == \A k \in 1..Len(selectors) : obs[k].href \notin {UrlA, UrlB}

\* C2: after a successful navigation in which no selector gave a URL, the
\* call returns the page's final URL, as a redirect, when the host of that
\* URL is not news.google.com, and nothing when it is; only the host counts.
C2_RedirectByHost ==
  (Navigated /\ pc = "pw_exit" /\ NoSelectorUrl) =>
    IF Host(current_url) # ViewerHost
      THEN retval = current_url /\ matched = "redirect"
      ELSE ~Truthy(retval)

\* C3: when goto gives no response or a status of 400 or more, the call
\* returns None at once: no settle pause, no selector query, no look at the
\* page's URL.
C3_NavErrorReturnsAtOnce ==
  LET afterGoto == pc \in {"settle", "selector", "redirect", "close"} \/ (pc = "pw_exit" /\ ~exc)
  IN  (afterGoto /\ (response = NoResponse \/ response >= 400)) =>
        /\ CallOver
        /\ retval = None
        /\ trace = {}
        /\ obs = FreshObs
        /\ current_url = None
        /\ matched = ""

C3_Witness ==
  /\ pc = "pw_exit"
  /\ ~exc
  /\ response = 404
  /\ "error:navigation" \in callLog
  /\ retval = None

\* ---- process_articles and main
InputGuids == [ i \in 1..Len(df.rows) |-> df.rows[i].guid ]
GuidsOf(recs) == [ i \in 1..Len(recs) |-> recs[i].guid ]

\* process_articles has returned its results (to main, or to its caller)
ProcessReturned == pc \in {"returned", "publish"}

\* position of a guid in the input
InputPos(g) == CHOOSE i \in 1..Len(df.rows) : df.rows[i].guid = g

\* C4: process_articles returns one record for each row whose resolver call
\* returned a non-empty URL, and no other, in the order of the input; it
\* returns for every input, also when every row fails.
C4_OneRecordPerResolved ==
  /\ pc = "crashed" => df.kind = "list"
  /\ ProcessReturned =>
       /\ Len(visited) = Len(df.rows)
       /\ Len(results) = Len(resolved)
       /\ GuidsOf(results) = GuidsOf(resolved)
       /\ \A i, j \in 1..Len(results) :
            i < j => InputPos(results[i].guid) < InputPos(results[j].guid)

C4_Witness ==
  /\ pc = "returned"
  /\ Len(df.rows) = 2
  /\ GuidsOf(results) = << "g2" >>
  /\ Len(resolved) = 1

\* C5: a record whose sheet update failed (no row, no service, API error)
\* is in the results all the same, and in the payload of the webhook post.
C5_FailedUpdateKeepsRecord ==
  \A i \in 1..Len(updates) :
    ~updates[i].ok =>
      /\ ProcessReturned =>
           \E r \in 1..Len(results) :
             results[r].guid = updates[i].guid /\ results[r].publisher_url = updates[i].url
      /\ (pc = "done" /\ entry = "main") =>
           /\ Len(posts) = 1
           /\ \E r \in 1..Len(posts[1].payload) :
                /\ posts[1].payload[r].guid = updates[i].guid
                /\ posts[1].payload[r].publisher_url = updates[i].url

C5_Witness ==
  /\ pc = "done"
  /\ Len(updates) = 2
  /\ ~updates[1].ok
  /\ updates[2].ok
  /\ Len(posts) = 1
  /\ Len(posts[1].payload) = 2

\* C6: the sheet update runs exactly once for every row whose resolver call
\* returned a non-empty URL, with that row's guid and that URL, before the
\* row's record is appended, and never for a row that did not resolve.
C6_UpdateOncePerResolved ==
  /\ Len(updates) <= Len(resolved)
  /\ \A i \in 1..Len(updates) :
       updates[i].guid = resolved[i].guid /\ updates[i].url = resolved[i].url
  /\ Len(results) <= Len(updates)
  /\ \A i \in 1..Len(results) : results[i].guid = updates[i].guid
  /\ (ProcessReturned \/ pc = "done") =>
       Len(updates) = Len(resolved) /\ Len(results) = Len(updates)

\* the two-record run of the scenario: g1 resolves through the first
\* selector, g2 does not resolve
C6_Witness ==
  /\ pc = "done"
  /\ visited = << "g1", "g2" >>
  /\ Len(updates) = 1
  /\ updates[1].guid = "g1"
  /\ updates[1].url = UrlA
  /\ Len(posts) = 1
  /\ GuidsOf(posts[1].payload) = << "g1" >>

C8_ResolveNeverRaises == pc = "pw_exit" => ~exc

C10_PostsOncePerNonEmptyRun ==
  ( /\ pc = "done" /\ entry = "main" /\ df.kind = "frame" /\ df.rows # <<>>
    /\ launches = Len(visited) /\ closes = launches ) => Len(posts) = 1

\* C10, amended: a run posts at most once, only after every row has been
\* visited, with the whole result list as payload; it posts exactly once when
\* that list is non-empty, whatever the webhook answers, and not at all when
\* no row resolved.
C10_PostsOnceWhenResults ==
  /\ Len(posts) <= 1
  /\ posts # <<>> =>
       /\ pc = "done"
       /\ visited = InputGuids
       /\ posts[1].payload = results
  /\ (pc = "done" /\ entry = "main" /\ df.kind = "frame" /\ df.rows # <<>>) =>
       (Len(posts) = 1 <=> results # <<>>)

C10_Witness ==
  /\ pc = "done"
  /\ Len(posts) = 1
  /\ posts[1].answer = "500"
  /\ Len(posts[1].payload) = 2

\* ---- per-record failures
IsPrefix(a, b) == Len(a) <= Len(b) /\ SubSeq(b, 1, Len(a)) = a
InResults(g) == \E r \in 1..Len(results) : results[r].guid = g
InResolved(g) == \E r \in 1..Len(resolved) : resolved[r].guid = g

\* C11: a row that fails (no URL, an exception out of the resolver, a
\* missing column) is dropped alone: the rows are taken one by one in input
\* order, every row is taken whatever happened to the rows before it, and a
\* row is in the results exactly when its own resolver call returned a URL.
C11_FailureDropsOnlyThatRow ==
  /\ IsPrefix(visited, InputGuids)
  /\ Len(visited) \in {idx - 1, idx}
  /\ pc = "crashed" => visited = <<>>
  /\ ProcessReturned =>
       /\ visited = InputGuids
       /\ \A i \in 1..Len(df.rows) :
            InResults(df.rows[i].guid) <=> InResolved(df.rows[i].guid)

\* the first row's call raised at launch, the second row resolved
C11_Witness ==
  /\ pc = "returned"
  /\ calls = << "g1", "g2" >>
  /\ launches = 1
  /\ closes = 1
  /\ GuidsOf(results) = << "g2" >>

\* ---- the selector chain
\* the read of selector k raised (the count, or the href read)
Thrown(k) == obs[k].cnt = "throw"
UrlAt(k) == obs[k].href \in {UrlA, UrlB}

\* C12: a selector whose read raises is skipped and logged at debug level;
\* the call goes on: every later selector is queried, in order, up to the
\* first one that gives a URL, which is then returned; when none gives a URL
\* the redirect test is still run and its URL returned when it passes.
C12_SelectorErrorNotFatal ==
  Navigated =>
    \A k \in 1..Len(selectors) :
      Thrown(k) =>
        /\ "debug:selector failed" \in callLog
        /\ "error:extracting" \notin callLog
        /\ \A j \in (k + 1)..Len(selectors) :
             (\A m \in 1..(j - 1) : ~UrlAt(m)) =>
               /\ obs[j].cnt # "unqueried"
               /\ UrlAt(j) => (retval = obs[j].href /\ matched = selectors[j])
        /\ NoSelectorUrl =>
             /\ "redirect" \in trace
             /\ ~Contains(current_url, ViewerHostText) =>
                  retval = current_url /\ matched = "redirect"

C12_Witness ==
  /\ pc = "pw_exit"
  /\ obs[1].cnt = "throw"
  /\ obs[2].cnt = "zero"
  /\ obs[3].cnt = "some"
  /\ obs[3].href = UrlA
  /\ retval = UrlA
  /\ matched = selectors[3]

\* selector k matched and its href is missing or empty
BlankAt(k) == obs[k].cnt = "some" /\ obs[k].href \in {None, EmptyStr}
FirstUrlAt(k) == UrlAt(k) /\ \A m \in 1..(k - 1) : ~UrlAt(m)

\* C13: only a non-empty href ends the chain.  A selector that matches with
\* a missing or empty href is not logged as the match, is followed by the
\* next selector, and gives no URL to return; the first selector with a
\* non-empty href gives the returned value, after which no selector is
\* queried and the redirect test is not run.
C13_FirstNonEmptyHrefWins ==
  Navigated =>
    /\ \A k \in 1..Len(selectors) :
         BlankAt(k) =>
           /\ matched # selectors[k]
           /\ (k < Len(selectors) /\ \A m \in 1..(k - 1) : ~UrlAt(m)) =>
                obs[k + 1].cnt # "unqueried"
    /\ \A k \in 1..Len(selectors) :
         FirstUrlAt(k) =>
           /\ retval = obs[k].href
           /\ matched = selectors[k]
           /\ "redirect" \notin trace
           /\ \A j \in (k + 1)..Len(selectors) : obs[j].cnt = "unqueried"
    /\ Truthy(retval) =>
         \/ \E k \in 1..Len(selectors) : FirstUrlAt(k) /\ retval = obs[k].href
         \/ NoSelectorUrl /\ matched = "redirect" /\ retval = current_url

C13_Witness ==
  /\ pc = "pw_exit"
  /\ obs[2].cnt = "some"
  /\ obs[2].href = EmptyStr
  /\ obs[4].href = UrlB
  /\ retval = UrlB
  /\ matched = selectors[4]

\* ---- no retries
NoDup(q) == Cardinality({ q[i] : i \in 1..Len(q) }) = Len(q)
InSeq(g, q) == \E i \in 1..Len(q) : q[i] = g
Increasing(q) == \A i \in 1..(Len(q) - 1) : InputPos(q[i]) < InputPos(q[i + 1])
Readable(i) == {"title", "link", "guid"} \subseteq DOMAIN df.rows[i]

\* C14 as claimed: the run ends after exactly N resolver calls for N rows.
C14_ExactlyNCalls == ProcessReturned => Len(calls) = Len(df.rows)

\* C14, amended: no row is resolved twice and no row is navigated to twice;
\* the resolver is called in input order, once for every row whose title,
\* link and guid can be read and never for a row with a missing column, so
\* the run ends after at most N calls for N rows, N when every row is
\* readable; a navigation belongs to a call of the same row.
C14_NoRetries ==
  /\ NoDup(calls)
  /\ NoDup(navs)
  /\ Increasing(calls)
  /\ Increasing(navs)
  /\ { navs[i] : i \in 1..Len(navs) } \subseteq { calls[i] : i \in 1..Len(calls) }
  /\ { calls[i] : i \in 1..Len(calls) } \subseteq { visited[i] : i \in 1..Len(visited) }
  /\ Len(calls) <= Len(df.rows)
  /\ ProcessReturned =>
       \A i \in 1..Len(df.rows) : InSeq(df.rows[i].guid, calls) <=> Readable(i)

\* two rows, neither resolved, each called once: the first call failed
\* before navigating, the second navigated and found nothing
C14_Witness ==
  /\ pc = "returned"
  /\ calls = << "g1", "g2" >>
  /\ navs = << "g2" >>
  /\ results = <<>>
  /\ closes = 1

\* ---- the enriched records
\* C15: every record of the results carries a non-empty publisher_url, the
\* value the resolver returned for that row, with the row's own title, link
\* and guid; a row whose call returned None or '' is in no record.
C15_RecordsCarryResolvedUrl ==
  /\ Len(results) <= Len(resolved)
  /\ \A i \in 1..Len(results) :
       LET rec == results[i]
           row == df.rows[InputPos(rec.guid)]
       IN  /\ rec.publisher_url \notin {None, EmptyStr}
           /\ rec.guid = resolved[i].guid
           /\ rec.publisher_url = resolved[i].url
           /\ rec.title = row.title
           /\ rec.original_link = row.link
           /\ rec.guid = row.guid
  /\ \A i \in 1..Len(posts) : \A j \in 1..Len(posts[i].payload) :
       posts[i].payload[j].publisher_url \notin {None, EmptyStr}

C15_Witness ==
  /\ pc = "done"
  /\ Len(results) = 2
  /\ results[1].publisher_url = UrlB
  /\ results[2].publisher_url = UrlA
  /\ results[1].title = "t1"
  /\ results[2].title = "t2"

\* ---- the resolver's log
ErrorRecords == {"error:navigation", "error:extracting"}

\* C16: the log of a call tells exhaustion from a navigation error.  A call
\* that navigated and found no URL, by selector or by redirect, logs the
\* not-found warning and no error; a call whose navigation gave no response
\* or a status of 400 or more logs the navigation error and no warning.
C16_LogsTellExhaustionFromNavError ==
  (CallOver /\ ~exc) =>
    /\ ("settle" \in trace /\ ~Truthy(retval)) =>
         /\ "warning:not found" \in callLog
         /\ callLog \cap ErrorRecords = {}
    /\ ("settle" \in trace /\ Truthy(retval)) =>
         /\ "warning:not found" \notin callLog
         /\ callLog \cap ErrorRecords = {}
    /\ ("settle" \notin trace /\ "error:extracting" \notin callLog) =>
         /\ response = NoResponse \/ response >= 400
         /\ "error:navigation" \in callLog
         /\ "warning:not found" \notin callLog
    /\ (response = NoResponse \/ response >= 400) =>
         /\ callLog \cap ErrorRecords # {}
         /\ "warning:not found" \notin callLog

\* exhaustion: no selector matched and the page is still on news.google.com
C16_Witness ==
  /\ pc = "pw_exit"
  /\ \A k \in 1..Len(selectors) : obs[k].cnt = "zero"
  /\ Contains(current_url, ViewerHostText)
  /\ callLog = {"warning:not found"}
  /\ retval = None

\* ---- get_sheet_data
LacksPublisherUrl(r) == r.pub = None \/ Strip(r.pub) = EmptyStr

\* the guids of the sheet rows without a publisher URL, in sheet order
RECURSIVE PendingGuids(_)
PendingGuids(values) ==
  IF values = <<>> THEN <<>>
  ELSE (IF LacksPublisherUrl(Head(values)) THEN << Head(values).guid >> ELSE <<>>)
         \o PendingGuids(Tail(values))

\* C17 as claimed: when the service calls succeed, get_sheet_data returns a
\* frame with exactly the rows of the sheet whose publisher-URL cell is
\* absent or blank, in sheet order, whatever mix of 8 and 9 cell rows the
\* sheet holds.
C17_FetchReturnsUnprocessed ==
  (entry = "main" /\ fetched = "ok" /\ sheet # <<>>) =>
    /\ df.kind = "frame"
    /\ InputGuids = PendingGuids(sheet)

\* ---- pass-through merging
BaseKeys == {"title", "original_link", "publisher_url", "guid"}

\* C18: pass-through merging only adds fields.  A result has the four keys
\* of the enriched record and the columns of its source row; a column that
\* is not one of the four keys has the source's value; the four keys keep
\* the values of lines 262-267, and a publisher_url column of the source
\* never replaces the resolved URL.
C18_PassThroughOnlyAdds ==
  \A i \in 1..Len(results) :
    LET rec == results[i]
        row == df.rows[InputPos(rec.guid)]
    IN  /\ DOMAIN rec = BaseKeys \cup DOMAIN row
        /\ \A k \in (DOMAIN row) \ BaseKeys : rec[k] = row[k]
        /\ rec.title = row.title
        /\ rec.original_link = row.link
        /\ rec.guid = row.guid
        /\ \E r \in 1..Len(resolved) :
             resolved[r].guid = rec.guid /\ resolved[r].url = rec.publisher_url
        /\ "publisher_url" \in DOMAIN row =>
             /\ row.publisher_url \in {None, Blank}
             /\ rec.publisher_url # row.publisher_url

\* a row with a blank publisher_url cell was resolved: the record carries the
\* resolved URL and the link column of the row
C18_Witness ==
  /\ entry = "main"
  /\ df.hasPubCol
  /\ Len(results) = 1
  /\ df.rows[InputPos(results[1].guid)].publisher_url = Blank
  /\ results[1].publisher_url = UrlA
  /\ results[1].link = df.rows[InputPos(results[1].guid)].link

====
